---- MODULE Spec2Model ----
(***************************************************************************)
(* cpp_sgr: SGR style tokens (class sgr / color) and the auto-resetting    *)
(* stream wrapper sgr_ostream_wrapper of include/cpp_sgr/sgr.hpp.          *)
(*                                                                         *)
(* A std::string is a sequence of one-character strings; the character     *)
(* 0x1B is written "ESC".  The sink (the stream buffer shared by the       *)
(* std::ostream and every wrapper built on it) is the sequence of the      *)
(* insertions made into it; each insertion records the characters written  *)
(* and whether kill() made it.  The earlier revisions of the header, class  *)
(* sgr_ostream and class SGR with its SGRSentinel, have sections of their   *)
(* own (SpecOstream, SpecSentinel).                                         *)
(***************************************************************************)
EXTENDS Integers, Sequences, FiniteSets

\* ------------------------------------------------------------------ bounds
MaxObj == 3
MaxSess == 2
MaxOps == 5
MaxChain == 5
MaxCombine == 3

\* ------------------------------------------------------- program constants
RESET == 0
BOLD == 1
FAINT == 2
ITALIC == 3
UNDERLINE == 4
BLINK_SLOW == 5
BLINK_FAST == 6
REVERSE == 7
CONCEAL == 8
STRIKE == 9
FRAME == 51
ENCIRCLE == 52
OVERLINE == 53
BLACK == 30
RED == 31
GREEN == 32
YELLOW == 33
BLUE == 34
MAGENTA == 35
CYAN == 36
WHITE == 37
BRIGHT_BLACK == 90
BRIGHT_RED == 91
BRIGHT_GREEN == 92
BRIGHT_YELLOW == 93
BRIGHT_BLUE == 94
BRIGHT_MAGENTA == 95
BRIGHT_CYAN == 96
BRIGHT_WHITE == 97

\* enum SGRCode
SGRCode ==
  {RESET, BOLD, FAINT, ITALIC, UNDERLINE, BLINK_SLOW, BLINK_FAST, REVERSE,
   CONCEAL, STRIKE, FRAME, ENCIRCLE, OVERLINE}

\* enum ANSIColor
ANSIColor ==
  {BLACK, RED, GREEN, YELLOW, BLUE, MAGENTA, CYAN, WHITE,
   BRIGHT_BLACK, BRIGHT_RED, BRIGHT_GREEN, BRIGHT_YELLOW,
   BRIGHT_BLUE, BRIGHT_MAGENTA, BRIGHT_CYAN, BRIGHT_WHITE}

\* ------------------------------------------------------------ class sgr
DigitChars == <<"0", "1", "2", "3", "4", "5", "6", "7", "8", "9">>

RECURSIVE to_string(_)
to_string(n) ==
  IF n < 0 THEN <<"-">> \o to_string(0 - n)
  ELSE IF n < 10 THEN <<DigitChars[n + 1]>>
  ELSE to_string(n \div 10) \o <<DigitChars[(n % 10) + 1]>>

escape == <<"ESC", "[">>
terminator == <<"m">>

\* explicit sgr(const std::string str) : str(str)
sgr_str(s) == [str |-> s]

\* a plausible slip: only the last digit of the code is kept
sgr_lastdigit(code) == sgr_str(<<DigitChars[(code % 10) + 1]>>)

\* sgr(const SGRCode code) : sgr(std::to_string(code))
sgr(code) == sgr_str(to_string(code))

\* a plausible slip: the separator between the payloads is left out
Plus_nosep(left, right) == sgr_str(left.str \o right.str)

\* a plausible slip: a separator is also put after the right operand
Plus_trailsep(left, right) == sgr_str(left.str \o <<";">> \o right.str \o <<";">>)

\* a plausible slip: operands joined in the wrong order
Plus_swapped(left, right) == sgr_str(right.str \o <<";">> \o left.str)

\* friend sgr operator+(const sgr & left, const sgr & right)
Plus(left, right) == sgr_str(left.str \o <<";">> \o right.str)

\* a plausible slip: the comma operator takes its operands right to left
Comma_swapped(left, right) == sgr_str(right.str \o <<";">> \o left.str)

\* friend sgr operator,(const sgr & left, const sgr & right)
Comma(left, right) == Plus(left, right)

\* a plausible slip: the terminator is left off
toString_noterm(c) == escape \o c.str

\* std::string toString() const
toString(c) == escape \o c.str \o terminator

\* a plausible slip: the background offset is forgotten
color_ansi_nooffset(code, foreground) == sgr_str(to_string(code))

\* color(const ANSIColor code, bool foreground)
color_ansi(code, foreground) ==
  sgr_str(to_string(IF foreground THEN code ELSE code + 10))

fg(code) == color_ansi(code, TRUE)
bg(code) == color_ansi(code, FALSE)

\* a plausible slip: the bounds 0 and 255 are excluded
verifyColorComponent_strict(c) == c < 255 /\ c > 0

\* a plausible slip: the range is one too wide on both sides
verifyColorComponent_loose(c) == c <= 256 /\ c >= -1

\* static bool verifyColorComponent(const int c) noexcept
verifyColorComponent(c) == c <= 255 /\ c >= 0

\* The outcome of a constructor that may throw: the exception thrown ("" if
\* none) and the token constructed (none if it threw).
Constructed(c) == [thrown |-> "", toks |-> <<c>>]
Thrown(what) == [thrown |-> what, toks |-> <<>>]

\* color(const int r, const int g, const int b, bool foreground): the sgr
\* base is initialized from the components, then the body verifies them
color_rgb(r, g, b, foreground) ==
  LET base == sgr_str((IF foreground THEN <<"3", "8", ";", "2", ";">>
                                     ELSE <<"4", "8", ";", "2", ";">>)
                      \o to_string(r) \o <<";">> \o to_string(g) \o <<";">>
                      \o to_string(b))
  IN  IF ~(verifyColorComponent(r) /\ verifyColorComponent(g)
           /\ verifyColorComponent(b))
        THEN Thrown("invalid_color_component")
        ELSE Constructed(base)

\* fg(const int r, const int g, const int b), bg(const int r, ...)
fg_rgb(r, g, b) == color_rgb(r, g, b, TRUE)
bg_rgb(r, g, b) == color_rgb(r, g, b, FALSE)

reset == sgr(RESET)
bold == sgr(BOLD)
underline == sgr(UNDERLINE)
red_fg == fg(RED)
green_fg == fg(GREEN)
white_bg == bg(WHITE)

\* ------------------------------------------------ class sgr_ostream_wrapper
\* One insertion into the stream buffer.
Written(from, s) == [from |-> from, str |-> s]

\* The buffer takes the characters of one insertion.
sputn(out, from, s) == Append(out, Written(from, s))

\* stream << s on the wrapper's own std::ostream (the member stream, built on
\* the buffer of the user's stream).  The characters reach the buffer when
\* this std::ostream is good and the buffer accepts them; otherwise nothing
\* is written and this std::ostream, and no other, leaves the good state.
\* Nothing in the library ever calls clear().
put(w, out, from, s, accept) ==
  IF w.good /\ accept
    THEN [w |-> w, out |-> sputn(out, from, s)]
    ELSE [w |-> [w EXCEPT !.good = FALSE], out |-> out]

\* sgr_ostream_wrapper(std::ostream & stream) :
\*   stream(stream.rdbuf()), shouldReset(true)
\* The new std::ostream starts good whatever the state of the user's stream.
wrapper_ctor == [shouldReset |-> TRUE, good |-> TRUE]

\* a plausible slip: the source keeps the obligation (a copy, not a move)
move_ctor_keep(other) ==
  [self |-> [shouldReset |-> other.shouldReset, good |-> TRUE], other |-> other]

\* a plausible slip: the destination does not take the obligation over
move_ctor_drop(other) ==
  [self |-> [shouldReset |-> FALSE, good |-> TRUE],
   other |-> [other EXCEPT !.shouldReset = FALSE]]

\* sgr_ostream_wrapper(sgr_ostream_wrapper && other) :
\*   stream(other.stream.rdbuf()), shouldReset(other.shouldReset)
\* { other.shouldReset = false; }
move_ctor(other) ==
  [self |-> [shouldReset |-> other.shouldReset, good |-> TRUE],
   other |-> [other EXCEPT !.shouldReset = FALSE]]

\* a plausible slip: the style is reset after every piece of text
insert_T_reset(w, out, t, accept) ==
  LET a == put(w, out, "insert", t, accept)
      b == put(a.w, a.out, "kill", toString(reset), accept)
  IN  [w |-> [b.w EXCEPT !.shouldReset = FALSE], out |-> b.out]

\* a plausible slip: writing text arms the wrapper
insert_T_rearm(w, out, t, accept) ==
  LET a == put(w, out, "insert", t, accept)
  IN  [w |-> [a.w EXCEPT !.shouldReset = TRUE], out |-> a.out]

\* template<class T> operator<<(const T & t), T streamable text: stream << t
insert_T(w, out, t, accept) == put(w, out, "insert", t, accept)

\* a plausible slip: the active sgr is reset before the new one is inserted
insert_sgr_override(w, out, c, accept) ==
  LET a == put(w, out, "kill", toString(reset), accept)
  IN  put(a.w, a.out, "insert", toString(c), accept)

\* a plausible slip: inserting the reset sgr gives the obligation up
insert_sgr_disarm(w, out, c, accept) ==
  LET a == put(w, out, "insert", toString(c), accept)
  IN  [w |-> [a.w EXCEPT !.shouldReset = (@ /\ c.str # reset.str)],
       out |-> a.out]

\* a plausible slip: inserting a non-reset sgr arms the wrapper again
insert_sgr_rearm(w, out, c, accept) ==
  LET a == put(w, out, "insert", toString(c), accept)
  IN  [w |-> [a.w EXCEPT !.shouldReset = (c.str # reset.str)], out |-> a.out]

\* template<> operator<<(const sgr & c): stream << c.toString()
insert_sgr(w, out, c, accept) == put(w, out, "insert", toString(c), accept)

\* a plausible slip: the flag is not cleared before the reset is written
kill_noclear(w, out, accept) ==
  IF w.shouldReset
    THEN put(w, out, "kill", toString(reset), accept)
    ELSE [w |-> w, out |-> out]

\* a plausible slip: kill() clears the flag and writes nothing
kill_silent(w, out, accept) ==
  [w |-> [w EXCEPT !.shouldReset = FALSE], out |-> out]

\* a plausible slip: the flag is cleared only once the reset has been written
kill_retry(w, out, accept) ==
  IF w.shouldReset
    THEN LET a == put(w, out, "kill", toString(reset), accept)
         IN  [w |-> [a.w EXCEPT !.shouldReset = ~a.w.good], out |-> a.out]
    ELSE [w |-> w, out |-> out]

\* void kill(): if(shouldReset) { shouldReset = false; *this << reset.toString(); }
kill(w, out, accept) ==
  IF w.shouldReset
    THEN put([w EXCEPT !.shouldReset = FALSE], out, "kill", toString(reset),
             accept)
    ELSE [w |-> w, out |-> out]

\* a plausible slip: the destructor does not finalize
dtor_leak(w, out, accept) == [w |-> w, out |-> out]

\* ~sgr_ostream_wrapper() { this->kill(); }
dtor(w, out, accept) == kill(w, out, accept)

\* sgr_ostream_wrapper operator<<(std::ostream & out, const sgr & c):
\* the local wrapper is built on out.rdbuf(), c inserted, the result
\* move-constructed from it, and the local wrapper destroyed.
ostream_insert(out, c, accept) ==
  LET wrapper == wrapper_ctor
      ins     == insert_sgr(wrapper, out, c, accept)
      mv      == move_ctor(ins.w)
      gone    == dtor(mv.other, ins.out, accept)
  IN  [ret |-> mv.self, out |-> gone.out]

\* template<class T> operator<<(const T & t) with T = color: stream << t finds
\* operator<<(std::ostream &, const sgr &); the wrapper it returns is a
\* temporary, destroyed at the end of that statement.  It writes through its
\* own std::ostream, so the state of this wrapper's stream plays no part.
insert_color(w, out, c, accept) ==
  LET inner == ostream_insert(out, c, accept)
      gone  == dtor(inner.ret, inner.out, accept)
  IN  [w |-> w, out |-> gone.out]

\* ------------------------------------------------------------- the sink
RECURSIVE SinkStr(_)
SinkStr(out) == IF out = <<>> THEN <<>> ELSE Head(out).str \o SinkStr(Tail(out))

Kills(out) == Cardinality({i \in 1..Len(out) : out[i].from = "kill"})

\* ------------------------------------------------------------------ state
VARIABLES
  sink,      \* the insertions made into the stream buffer, in order
  objs,      \* the sgr_ostream_wrapper objects ever constructed
  nextSess,  \* number of sessions opened on the sink so far
  hist,      \* history of the operations performed (for stating properties)
  prog,      \* the insertion chain being executed (chain programs only)
  pc,        \* position in prog
  tin,       \* the token expression being evaluated (token programs only)
  tout       \* what its evaluation has produced so far

vars == <<sink, objs, nextSess, hist, prog, pc, tin, tout>>

\* no token expression under evaluation
NoInput == [op |-> "none", n |-> 0, rgb |-> <<>>, fgd |-> FALSE, ts |-> <<>>]
NoOutput == [stage |-> "none", thrown |-> "", toks |-> <<>>, text |-> <<>>]

Live(o) == o \in 1..Len(objs) /\ objs[o].alive

\* One history entry: op applied to object obj (for a move: obj is the
\* destination and src the source); flag is shouldReset of the object acted
\* on just before (for a move: of the source), got and left are shouldReset
\* of obj and of src just after, wrote is the number of resets kill() wrote
\* during the step, sess the session those resets belong to, nonreset tells
\* whether an inserted sgr was not the reset sgr.
Ev(op, obj, src, sess, flag, got, left, wrote, nonreset) ==
  [op |-> op, obj |-> obj, src |-> src, sess |-> sess, flag |-> flag,
   got |-> got, left |-> left, wrote |-> wrote, nonreset |-> nonreset]

\* sgr_ostream_wrapper w(out): a new session, held by a new wrapper; nothing
\* is written
ConstructBody ==
  LET o == Len(objs) + 1
      s == nextSess + 1
  IN  /\ objs' = Append(objs, [alive |-> TRUE, w |-> wrapper_ctor, sess |-> s])
      /\ nextSess' = s
      /\ hist' = Append(hist, Ev("ctor", o, 0, s, FALSE,
                                 wrapper_ctor.shouldReset, FALSE, 0, FALSE))
      /\ UNCHANGED sink

\* out << c on a plain std::ostream: a new session, held by a new wrapper
InsertBody(c, accept) ==
  LET r == ostream_insert(sink, c, accept)
      o == Len(objs) + 1
      s == nextSess + 1
  IN  /\ sink' = r.out
      /\ objs' = Append(objs, [alive |-> TRUE, w |-> r.ret, sess |-> s])
      /\ nextSess' = s
      /\ hist' = Append(hist, Ev("insert", o, 0, s, FALSE, r.ret.shouldReset,
                                 FALSE, Kills(r.out) - Kills(sink),
                                 c.str # reset.str))

\* wrapper << c, c of static type sgr
WriteSgrBody(o, c, accept) ==
  LET r == insert_sgr(objs[o].w, sink, c, accept)
  IN  /\ sink' = r.out
      /\ objs' = [objs EXCEPT ![o].w = r.w]
      /\ hist' = Append(hist, Ev("writeSgr", o, 0, objs[o].sess,
                                 objs[o].w.shouldReset, r.w.shouldReset, FALSE,
                                 Kills(r.out) - Kills(sink), c.str # reset.str))
      /\ UNCHANGED nextSess

\* wrapper << t, t plain text
WriteTextBody(o, t, accept) ==
  LET r == insert_T(objs[o].w, sink, t, accept)
  IN  /\ sink' = r.out
      /\ objs' = [objs EXCEPT ![o].w = r.w]
      /\ hist' = Append(hist, Ev("writeText", o, 0, objs[o].sess,
                                 objs[o].w.shouldReset, r.w.shouldReset, FALSE,
                                 Kills(r.out) - Kills(sink), FALSE))
      /\ UNCHANGED nextSess

\* wrapper << c, c of static type color: a nested temporary session
WriteColorBody(o, c, accept) ==
  LET r == insert_color(objs[o].w, sink, c, accept)
      s == nextSess + 1
  IN  /\ sink' = r.out
      /\ objs' = [objs EXCEPT ![o].w = r.w]
      /\ nextSess' = s
      /\ hist' = Append(hist, Ev("writeColor", o, 0, s,
                                 objs[o].w.shouldReset, r.w.shouldReset, FALSE,
                                 Kills(r.out) - Kills(sink), c.str # reset.str))

\* sgr_ostream_wrapper d(std::move(objs[o]))
MoveBody(o) ==
  LET r == move_ctor(objs[o].w)
      d == Len(objs) + 1
  IN  /\ objs' = Append([objs EXCEPT ![o].w = r.other],
                        [alive |-> TRUE, w |-> r.self, sess |-> objs[o].sess])
      /\ hist' = Append(hist, Ev("move", d, o, objs[o].sess,
                                 objs[o].w.shouldReset, r.self.shouldReset,
                                 r.other.shouldReset, 0, FALSE))
      /\ UNCHANGED <<sink, nextSess>>

\* kill() on a live wrapper
KillBody(o, accept) ==
  LET r == kill(objs[o].w, sink, accept)
  IN  /\ sink' = r.out
      /\ objs' = [objs EXCEPT ![o].w = r.w]
      /\ hist' = Append(hist, Ev("kill", o, 0, objs[o].sess,
                                 objs[o].w.shouldReset, r.w.shouldReset, FALSE,
                                 Kills(r.out) - Kills(sink), FALSE))
      /\ UNCHANGED nextSess

\* the wrapper's lifetime ends: ~sgr_ostream_wrapper()
DestroyBody(o, accept) ==
  LET r == dtor(objs[o].w, sink, accept)
  IN  /\ sink' = r.out
      /\ objs' = [objs EXCEPT ![o] = [@ EXCEPT !.w = r.w, !.alive = FALSE]]
      /\ hist' = Append(hist, Ev("destroy", o, 0, objs[o].sess,
                                 objs[o].w.shouldReset, r.w.shouldReset, FALSE,
                                 Kills(r.out) - Kills(sink), FALSE))
      /\ UNCHANGED nextSess

\* out << t on the plain std::ostream, t plain text: no wrapper is involved
DirectTextBody(t) ==
  /\ sink' = sputn(sink, "direct", t)
  /\ hist' = Append(hist, Ev("direct", 0, 0, 0, FALSE, FALSE, FALSE, 0, FALSE))
  /\ UNCHANGED <<objs, nextSess>>

\* ------------------------------------------- any use of the wrapper (Spec)
SgrTokens == {reset, bold}
ColorTokens == {red_fg}
Texts == {<<"t">>}

Init ==
  /\ sink = <<>>
  /\ objs = <<>>
  /\ nextSess = 0
  /\ hist = <<>>
  /\ prog = <<>>
  /\ pc = 0
  /\ tin = NoInput
  /\ tout = NoOutput

\* The public constructor: a wrapper on the user's stream, no token written.
Construct ==
  /\ Len(hist) < MaxOps /\ Len(objs) < MaxObj /\ nextSess < MaxSess
  /\ ConstructBody
  /\ UNCHANGED <<prog, pc, tin, tout>>

\* In every action accept tells whether the buffer takes the characters the
\* step writes.
Insert(c, accept) ==
  /\ Len(hist) < MaxOps /\ Len(objs) < MaxObj /\ nextSess < MaxSess
  /\ InsertBody(c, accept)
  /\ UNCHANGED <<prog, pc, tin, tout>>

WriteSgr(o, c, accept) ==
  /\ Len(hist) < MaxOps /\ Live(o)
  /\ WriteSgrBody(o, c, accept)
  /\ UNCHANGED <<prog, pc, tin, tout>>

WriteText(o, t, accept) ==
  /\ Len(hist) < MaxOps /\ Live(o)
  /\ WriteTextBody(o, t, accept)
  /\ UNCHANGED <<prog, pc, tin, tout>>

WriteColor(o, c, accept) ==
  /\ Len(hist) < MaxOps /\ Live(o) /\ nextSess < MaxSess
  /\ WriteColorBody(o, c, accept)
  /\ UNCHANGED <<prog, pc, tin, tout>>

Move(o) ==
  /\ Len(hist) < MaxOps /\ Live(o) /\ Len(objs) < MaxObj
  /\ MoveBody(o)
  /\ UNCHANGED <<prog, pc, tin, tout>>

Kill(o, accept) ==
  /\ Len(hist) < MaxOps /\ Live(o)
  /\ KillBody(o, accept)
  /\ UNCHANGED <<prog, pc, tin, tout>>

Destroy(o, accept) ==
  /\ Len(hist) < MaxOps /\ Live(o)
  /\ DestroyBody(o, accept)
  /\ UNCHANGED <<prog, pc, tin, tout>>

\* Text written to the user's stream itself.
DirectText(t) ==
  /\ Len(hist) < MaxOps
  /\ DirectTextBody(t)
  /\ UNCHANGED <<prog, pc, tin, tout>>

\* The buffer accepts every write.
Next ==
  \/ Construct
  \/ \E c \in SgrTokens : Insert(c, TRUE)
  \/ \E t \in Texts : DirectText(t)
  \/ \E o \in 1..MaxObj :
       \/ \E c \in SgrTokens : WriteSgr(o, c, TRUE)
       \/ \E t \in Texts : WriteText(o, t, TRUE)
       \/ \E c \in ColorTokens : WriteColor(o, c, TRUE)
       \/ Move(o)
       \/ Kill(o, TRUE)
       \/ Destroy(o, TRUE)

Spec == Init /\ [][Next]_vars

\* ------------------------------- a buffer that may refuse (SpecFail)
\* Any write may be refused by the buffer, whatever happened to the writes
\* before it: a buffer that stops accepting for good and one that refuses
\* once are both among the behaviours.
FailTokens == {bold}

NextFail ==
  \/ Construct
  \/ \E c \in FailTokens, accept \in BOOLEAN : Insert(c, accept)
  \/ \E o \in 1..MaxObj, accept \in BOOLEAN :
       \/ \E c \in FailTokens : WriteSgr(o, c, accept)
       \/ \E t \in Texts : WriteText(o, t, accept)
       \/ Move(o)
       \/ Kill(o, accept)
       \/ Destroy(o, accept)

SpecFail == Init /\ [][NextFail]_vars

\* ------------------------------------ insertion chains (SpecChain)
\* A chain program is one statement  stream << i1 << i2 << ... << in;  on an
\* empty std::ostringstream, as in test_simple, test_reset and test_multi:
\* i1 is an sgr, the later items are named sgr constants (static type sgr)
\* or text.  The wrapper returned by the first insertion is a temporary,
\* destroyed at the end of the statement.
BoldString == <<"B", "o", "l", "d", " ", "s", "t", "r", "i", "n", "g">>
GreenString == <<"G", "r", "e", "e", "n", " ", "s", "t", "r", "i", "n", "g">>

SgrItem(c, parts) == [kind |-> "sgr", str |-> c.str, parts |-> parts]
TextItem(t) == [kind |-> "text", str |-> t, parts |-> <<>>]
NamedItem(c) == SgrItem(c, <<c.str>>)

\* (t1, t2, ..., tn): the comma operator associates to the left
RECURSIVE CommaAll(_)
CommaAll(ts) ==
  IF Len(ts) = 1 THEN ts[1]
  ELSE Comma(CommaAll(SubSeq(ts, 1, Len(ts) - 1)), ts[Len(ts)])

CombinedItem(ts) == SgrItem(CommaAll(ts), [i \in 1..Len(ts) |-> ts[i].str])

ChainItems ==
  {NamedItem(reset), NamedItem(bold), NamedItem(green_fg),
   TextItem(BoldString), TextItem(GreenString)}

CombineBase == {reset, bold, red_fg, white_bg}

PlainChains ==
  {ch \in UNION {[1..n -> ChainItems] : n \in 1..MaxChain} : ch[1].kind = "sgr"}

CombinedChains ==
  {<<CombinedItem(ts), TextItem(t)>> :
     ts \in UNION {[1..n -> CombineBase] : n \in 2..MaxCombine},
     t \in {BoldString, GreenString}}

InitChain ==
  /\ sink = <<>>
  /\ objs = <<>>
  /\ nextSess = 0
  /\ hist = <<>>
  /\ prog \in PlainChains \cup CombinedChains
  /\ pc = 0
  /\ tin = NoInput
  /\ tout = NoOutput

ChainDone == pc = Len(prog) + 1

\* stream << i1
ChainStart ==
  /\ pc = 0
  /\ InsertBody(sgr_str(prog[1].str), TRUE)
  /\ pc' = 1
  /\ UNCHANGED <<prog, tin, tout>>

\* ... << i(pc+1), through the temporary wrapper
ChainWrite ==
  /\ pc \in 1..(Len(prog) - 1)
  /\ prog[pc + 1].kind \in {"sgr", "text"}
  /\ IF prog[pc + 1].kind = "sgr"
       THEN WriteSgrBody(1, sgr_str(prog[pc + 1].str), TRUE)
       ELSE WriteTextBody(1, prog[pc + 1].str, TRUE)
  /\ pc' = pc + 1
  /\ UNCHANGED <<prog, tin, tout>>

\* the end of the statement: the temporary wrapper is destroyed
ChainEnd ==
  /\ pc = Len(prog)
  /\ pc > 0
  /\ DestroyBody(1, TRUE)
  /\ pc' = pc + 1
  /\ UNCHANGED <<prog, tin, tout>>

NextChain == ChainStart \/ ChainWrite \/ ChainEnd

SpecChain == InitChain /\ [][NextChain]_vars

\* ------------------------------------------- token expressions (SpecToken)
\* A token program builds tokens from one input (an SGR code, an indexed
\* color, three color components, or three tokens to combine), renders what
\* it built, and writes the first rendering to the plain stream as text.
ComponentSamples == {-1, 0, 1, 9, 10, 99, 100, 254, 255, 256}

TokenPool == {reset, bold, underline, red_fg, white_bg, fg_rgb(128, 64, 7).toks[1]}

TokenInputs ==
  {[NoInput EXCEPT !.op = "code", !.n = c] : c \in SGRCode}
  \cup {[NoInput EXCEPT !.op = "ansi", !.n = c, !.fgd = f] :
          c \in ANSIColor, f \in BOOLEAN}
  \cup {[NoInput EXCEPT !.op = "rgb", !.rgb = <<r, g, b>>, !.fgd = f] :
          r \in ComponentSamples, g \in ComponentSamples,
          b \in ComponentSamples, f \in BOOLEAN}
  \cup {[NoInput EXCEPT !.op = o, !.ts = t] :
          o \in {"plus", "comma"}, t \in [1..3 -> TokenPool]}

InitToken ==
  /\ sink = <<>>
  /\ objs = <<>>
  /\ nextSess = 0
  /\ hist = <<>>
  /\ prog = <<>>
  /\ pc = 0
  /\ tin \in TokenInputs
  /\ tout = NoOutput

Built(r) == [NoOutput EXCEPT !.stage = "built", !.thrown = r.thrown, !.toks = r.toks]

\* sgr t(code)
TokFromCode ==
  /\ tin.op = "code" /\ tout.stage = "none"
  /\ tout' = Built(Constructed(sgr(tin.n)))
  /\ UNCHANGED <<sink, objs, nextSess, hist, prog, pc, tin>>

\* color::fg(code), color::bg(code)
TokColor ==
  /\ tin.op = "ansi" /\ tout.stage = "none"
  /\ tout' = Built(Constructed(IF tin.fgd THEN fg(tin.n) ELSE bg(tin.n)))
  /\ UNCHANGED <<sink, objs, nextSess, hist, prog, pc, tin>>

\* color::fg(r, g, b), color::bg(r, g, b)
TokColorRGB ==
  /\ tin.op = "rgb" /\ tout.stage = "none"
  /\ tout' = Built(IF tin.fgd THEN fg_rgb(tin.rgb[1], tin.rgb[2], tin.rgb[3])
                              ELSE bg_rgb(tin.rgb[1], tin.rgb[2], tin.rgb[3]))
  /\ UNCHANGED <<sink, objs, nextSess, hist, prog, pc, tin>>

\* a + b, (a + b) + c, a + (b + c)
TokPlus ==
  /\ tin.op = "plus" /\ tout.stage = "none"
  /\ LET a == tin.ts[1]
         b == tin.ts[2]
         c == tin.ts[3]
     IN  tout' = [NoOutput EXCEPT !.stage = "built",
                    !.toks = <<Plus(a, b), Plus(Plus(a, b), c), Plus(a, Plus(b, c))>>]
  /\ UNCHANGED <<sink, objs, nextSess, hist, prog, pc, tin>>

\* (a, b), ((a, b), c), (a, (b, c))
TokComma ==
  /\ tin.op = "comma" /\ tout.stage = "none"
  /\ LET a == tin.ts[1]
         b == tin.ts[2]
         c == tin.ts[3]
     IN  tout' = [NoOutput EXCEPT !.stage = "built",
                    !.toks = <<Comma(a, b), Comma(Comma(a, b), c), Comma(a, Comma(b, c))>>]
  /\ UNCHANGED <<sink, objs, nextSess, hist, prog, pc, tin>>

\* t.toString() for every token built
TokRender ==
  /\ tout.stage = "built" /\ tout.toks # <<>>
  /\ tout' = [tout EXCEPT !.stage = "rendered",
                 !.text = [i \in 1..Len(tout.toks) |-> toString(tout.toks[i])]]
  /\ UNCHANGED <<sink, objs, nextSess, hist, prog, pc, tin>>

\* stream << t.toString(): the rendering goes to the plain stream as text
TokPrint ==
  /\ tout.stage = "rendered"
  /\ DirectTextBody(tout.text[1])
  /\ tout' = [tout EXCEPT !.stage = "printed"]
  /\ UNCHANGED <<prog, pc, tin>>

NextToken ==
  \/ TokFromCode
  \/ TokColor
  \/ TokColorRGB
  \/ TokPlus
  \/ TokComma
  \/ TokRender
  \/ TokPrint

SpecToken == InitToken /\ [][NextToken]_vars

\* --------------------------- chains that construct a color (SpecThrow)
\* A chain  stream << i1 << ... << in  inside a try block, in which an item
\* may be color::fg(r, g, b) or color::bg(r, g, b), constructed while the
\* statement is evaluated from the components in tin.
RgbItem == [kind |-> "rgb", str |-> <<>>, parts |-> <<>>]

ThrowItems == {NamedItem(bold), NamedItem(reset), TextItem(BoldString), RgbItem}

ThrowSamples == {<<256, 0, 0>>, <<0, -1, 0>>, <<255, 128, 0>>}

ThrowChains ==
  {ch \in UNION {[1..n -> ThrowItems] : n \in 2..(MaxChain - 1)} :
     /\ ch[1].kind = "sgr"
     /\ \E k \in 2..Len(ch) : ch[k] = RgbItem}

InitThrow ==
  /\ sink = <<>>
  /\ objs = <<>>
  /\ nextSess = 0
  /\ hist = <<>>
  /\ prog \in ThrowChains
  /\ pc = 0
  /\ tin \in {[NoInput EXCEPT !.op = "rgb", !.rgb = x, !.fgd = f] :
                x \in ThrowSamples, f \in BOOLEAN}
  /\ tout = NoOutput

\* the color of the chain's rgb items: color::fg(r, g, b) or color::bg(r, g, b)
ChainRgb ==
  IF tin.fgd THEN fg_rgb(tin.rgb[1], tin.rgb[2], tin.rgb[3])
  ELSE bg_rgb(tin.rgb[1], tin.rgb[2], tin.rgb[3])

\* ... << color::fg(r, g, b), the components valid: a color-typed insertion
ChainColor ==
  /\ pc \in 1..(Len(prog) - 1)
  /\ prog[pc + 1] = RgbItem
  /\ ChainRgb.thrown = ""
  /\ WriteColorBody(1, ChainRgb.toks[1], TRUE)
  /\ pc' = pc + 1
  /\ tout' = Built(ChainRgb)
  /\ UNCHANGED <<prog, tin>>

\* A constructor of an rgb item not yet inserted throws.  Before C++17 the
\* operands of << are not sequenced, so it may run ahead of the insertions
\* to its left, even before the first one.  The library has no handler of its
\* own.  When the program has one (caught), the stack is unwound and the
\* temporary wrapper, if built, is destroyed on the way to the handler.  When
\* it has none, std::terminate is called and whether the stack is unwound
\* first is the implementation's choice (g++ does not unwind).
ChainThrow(caught, unwind) ==
  /\ pc \in 0..(Len(prog) - 1)
  /\ \E k \in (pc + 1)..Len(prog) : prog[k] = RgbItem
  /\ ChainRgb.thrown # ""
  /\ caught => unwind
  /\ IF unwind /\ pc > 0 THEN DestroyBody(1, TRUE)
     ELSE UNCHANGED <<sink, objs, nextSess, hist>>
  /\ pc' = Len(prog) + 1
  /\ tout' = [Built(ChainRgb) EXCEPT
                !.stage = IF caught THEN "caught" ELSE "terminated"]
  /\ UNCHANGED <<prog, tin>>

NextThrow ==
  \/ ChainStart
  \/ ChainWrite
  \/ ChainColor
  \/ \E caught \in BOOLEAN, unwind \in BOOLEAN : ChainThrow(caught, unwind)
  \/ ChainEnd

SpecThrow == InitThrow /\ [][NextThrow]_vars

\* ------------------------ the sgr_ostream revision (SpecOstream)
\* class sgr_ostream : public std::ostream, the predecessor of the wrapper.
\* An object is its flag dead; its buffer is the sink.

\* sgr_ostream(std::ostream & stream, const sgr & sgr): *this << sgr.toString()
sgr_ostream_ctor(out, c) ==
  [self |-> [dead |-> FALSE], out |-> sputn(out, "insert", toString(c))]

\* a plausible slip that is the documented intent: the copy takes the
\* obligation over from its source
sgr_ostream_copy_transfer(stream) ==
  [self |-> [dead |-> stream.dead], other |-> [dead |-> TRUE]]

\* sgr_ostream(const sgr_ostream & stream): only the buffer is taken; dead
\* keeps its default member initializer, the source is const
sgr_ostream_copy(stream) == [self |-> [dead |-> FALSE], other |-> stream]

\* void kill(): if(!dead) { dead = true; *this << reset.toString(); }
sgr_ostream_kill(w, out) ==
  IF ~w.dead
    THEN [w |-> [w EXCEPT !.dead = TRUE],
          out |-> sputn(out, "kill", toString(reset))]
    ELSE [w |-> w, out |-> out]

\* ~sgr_ostream() { this->kill(); }
sgr_ostream_dtor(w, out) == sgr_ostream_kill(w, out)

\* return sgr_ostream(...): the temporary is the result itself when the copy
\* is elided; otherwise the result is copy-constructed from it and the
\* temporary destroyed.  Which one happens is the build's choice.
sgr_ostream_return(tmp, out, elide) ==
  IF elide THEN [ret |-> tmp, out |-> out]
  ELSE LET cp   == sgr_ostream_copy(tmp)
           gone == sgr_ostream_dtor(cp.other, out)
       IN  [ret |-> cp.self, out |-> gone.out]

\* sgr_ostream operator<<(std::ostream & out, const sgr & c)
sgr_ostream_insert(out, c, elide) ==
  LET made == sgr_ostream_ctor(out, c)
  IN  sgr_ostream_return(made.self, made.out, elide)

\* sgr_ostream sgr_ostream::operator<<(const sgr & c):
\* this->kill(); return sgr_ostream(*this, c);
sgr_ostream_replace(w, out, c, elide) ==
  LET killed == sgr_ostream_kill(w, out)
      made   == sgr_ostream_ctor(killed.out, c)
      r      == sgr_ostream_return(made.self, made.out, elide)
  IN  [w |-> killed.w, ret |-> r.ret, out |-> r.out]

OsTokens == {bold, green_fg}

\* stream << c on the plain std::ostream
OsInsert(c, elide) ==
  /\ Len(hist) < MaxOps /\ Len(objs) < MaxObj /\ nextSess < MaxSess
  /\ LET r == sgr_ostream_insert(sink, c, elide)
         s == nextSess + 1
     IN  /\ sink' = r.out
         /\ objs' = Append(objs, [alive |-> TRUE, w |-> r.ret, sess |-> s])
         /\ nextSess' = s
         /\ hist' = Append(hist, Ev("insert", Len(objs) + 1, 0, s, FALSE,
                                    ~r.ret.dead, FALSE,
                                    Kills(r.out) - Kills(sink), TRUE))
  /\ UNCHANGED <<prog, pc, tin, tout>>

\* the operation last applied to object o
LastOpOn(o) ==
  LET I == {i \in 1..Len(hist) : hist[i].obj = o}
  IN  IF I = {} THEN "none"
      ELSE hist[CHOOSE i \in I : \A j \in I : j <= i].op

\* ... << c after an sgr_ostream.  Right after a token the left operand is
\* the sgr_ostream itself and the member operator<< replaces it.  After text
\* the left operand is what the library's text insertion returned: the
\* sgr_ostream again, or a plain std::ostream &, for which the non-member
\* operator<< opens another sgr_ostream and object o is not killed.
OsWriteSgr(o, c, elide, member) ==
  /\ Len(hist) < MaxOps /\ Live(o) /\ Len(objs) < MaxObj
  /\ member \/ LastOpOn(o) = "writeText"
  /\ LET rm == sgr_ostream_replace(objs[o].w, sink, c, elide)
         rf == sgr_ostream_insert(sink, c, elide)
         w1 == IF member THEN rm.w ELSE objs[o].w
         nw == IF member THEN rm.ret ELSE rf.ret
         so == IF member THEN rm.out ELSE rf.out
     IN  /\ sink' = so
         /\ objs' = Append([objs EXCEPT ![o].w = w1],
                           [alive |-> TRUE, w |-> nw, sess |-> objs[o].sess])
         /\ hist' = Append(hist, Ev("writeSgr", o, 0, objs[o].sess,
                                    ~objs[o].w.dead, ~w1.dead, FALSE,
                                    Kills(so) - Kills(sink), TRUE))
  /\ UNCHANGED <<nextSess, prog, pc, tin, tout>>

\* ... << t, t plain text: std::operator<< on the std::ostream base
OsWriteText(o, t) ==
  /\ Len(hist) < MaxOps /\ Live(o)
  /\ sink' = sputn(sink, "insert", t)
  /\ hist' = Append(hist, Ev("writeText", o, 0, objs[o].sess, ~objs[o].w.dead,
                             ~objs[o].w.dead, FALSE, 0, FALSE))
  /\ UNCHANGED <<objs, nextSess, prog, pc, tin, tout>>

\* sgr_ostream d(objs[o])
OsCopy(o) ==
  /\ Len(hist) < MaxOps /\ Live(o) /\ Len(objs) < MaxObj
  /\ LET r == sgr_ostream_copy(objs[o].w)
     IN  /\ objs' = Append([objs EXCEPT ![o].w = r.other],
                           [alive |-> TRUE, w |-> r.self, sess |-> objs[o].sess])
         /\ hist' = Append(hist, Ev("copy", Len(objs) + 1, o, objs[o].sess,
                                    ~objs[o].w.dead, ~r.self.dead,
                                    ~r.other.dead, 0, FALSE))
  /\ UNCHANGED <<sink, nextSess, prog, pc, tin, tout>>

\* the object's lifetime ends: ~sgr_ostream()
OsDestroy(o) ==
  /\ Len(hist) < MaxOps /\ Live(o)
  /\ LET r == sgr_ostream_dtor(objs[o].w, sink)
     IN  /\ sink' = r.out
         /\ objs' = [objs EXCEPT ![o] = [@ EXCEPT !.w = r.w, !.alive = FALSE]]
         /\ hist' = Append(hist, Ev("destroy", o, 0, objs[o].sess,
                                    ~objs[o].w.dead, ~r.w.dead, FALSE,
                                    Kills(r.out) - Kills(sink), FALSE))
  /\ UNCHANGED <<nextSess, prog, pc, tin, tout>>

NextOstream ==
  \/ \E c \in OsTokens, elide \in BOOLEAN : OsInsert(c, elide)
  \/ \E o \in 1..MaxObj :
       \/ \E c \in OsTokens, elide \in BOOLEAN, member \in BOOLEAN :
            OsWriteSgr(o, c, elide, member)
       \/ \E t \in Texts : OsWriteText(o, t)
       \/ OsCopy(o)
       \/ OsDestroy(o)

SpecOstream == Init /\ [][NextOstream]_vars

\* ------------------------ the SGR sentinel revision (SpecSentinel)
\* class SGR with the private class SGRSentinel.  The sink is the sequence of
\* the insertions made into std::cerr, std::cout and std::clog, each tagged
\* with its stream; pc is 0 while main runs and 1 once the program has ended.
StdStreams == {"cerr", "cout", "clog"}

\* friend std::ostream & operator<<(std::ostream & out, const SGR & c):
\* out << escape << c.str << "m"
SGR_insert(out, stream, c) == sputn(out, stream, escape \o c.str \o <<"m">>)

\* SGR::SGRSentinel::~SGRSentinel()
SGRSentinel_dtor(out) ==
  SGR_insert(SGR_insert(SGR_insert(out, "cerr", reset), "cout", reset),
             "clog", reset)

\* static SGRSentinel sentinel; is declared in class SGR, and no definition
\* SGR::SGRSentinel SGR::sentinel; exists: the program has no such object.
sentinel_defined == FALSE

\* the destructors of the objects with static storage duration, run at exit
static_destruction(out) == IF sentinel_defined THEN SGRSentinel_dtor(out) ELSE out

\* std::cxxx << c
SnWriteSgr(stream, c) ==
  /\ pc = 0 /\ Len(hist) < MaxOps
  /\ sink' = SGR_insert(sink, stream, c)
  /\ hist' = Append(hist, Ev("writeSgr", 0, 0, 0, FALSE, FALSE, FALSE, 0,
                             c.str # reset.str))
  /\ UNCHANGED <<objs, nextSess, prog, pc, tin, tout>>

\* std::cxxx << t
SnWriteText(stream, t) ==
  /\ pc = 0 /\ Len(hist) < MaxOps
  /\ sink' = sputn(sink, stream, t)
  /\ hist' = Append(hist, Ev("writeText", 0, 0, 0, FALSE, FALSE, FALSE, 0, FALSE))
  /\ UNCHANGED <<objs, nextSess, prog, pc, tin, tout>>

\* main returns: static destruction
SnExit ==
  /\ pc = 0
  /\ sink' = static_destruction(sink)
  /\ hist' = Append(hist, Ev("exit", 0, 0, 0, FALSE, FALSE, FALSE,
                             Len(static_destruction(sink)) - Len(sink), FALSE))
  /\ pc' = 1
  /\ UNCHANGED <<objs, nextSess, prog, tin, tout>>

NextSentinel ==
  \/ \E st \in StdStreams : SnWriteSgr(st, bold)
  \/ \E st \in StdStreams, t \in Texts : SnWriteText(st, t)
  \/ SnExit

SpecSentinel == Init /\ [][NextSentinel]_vars

\* ------------------------------------------------------- expected values
\* The wire format, spelled out: ESC [ payload m, and the reset sequence.
ResetStr == <<"ESC", "[", "0", "m">>
Wire(payload) == <<"ESC", "[">> \o payload \o <<"m">>

RECURSIVE JoinSemi(_)
JoinSemi(ps) ==
  IF Len(ps) = 1 THEN ps[1] ELSE ps[1] \o <<";">> \o JoinSemi(Tail(ps))

\* number of occurrences of pat in s
Occ(pat, s) ==
  Cardinality({i \in 1..(Len(s) - Len(pat) + 1) :
                 SubSeq(s, i, i + Len(pat) - 1) = pat})

Escapes(s) == Cardinality({i \in 1..Len(s) : s[i] = "ESC"})

IsNonResetSgr(it) == it.kind = "sgr" /\ it.str # <<"0">>
IsNamed(it) == it.kind = "sgr" /\ Len(it.parts) = 1
IsText(it) == it.kind = "text"

Min(S) == CHOOSE x \in S : \A y \in S : x <= y

RECURSIVE SumWrote(_)
SumWrote(I) ==
  IF I = {} THEN 0
  ELSE LET i == CHOOSE x \in I : TRUE IN hist[i].wrote + SumWrote(I \ {i})

\* automatic resets (written by kill()) charged to session s
AutoCnt(s) == SumWrote({i \in 1..Len(hist) : hist[i].sess = s})

\* the finalizations (kill() alone, or the destructor) of object o
Finalizes(o) ==
  {i \in 1..Len(hist) : hist[i].op \in {"kill", "destroy"} /\ hist[i].obj = o}

Max(S) == CHOOSE x \in S : \A y \in S : x >= y

\* the last escape sequence in s, from its ESC to its final m; <<>> if none
LastEscape(s) ==
  LET E == {i \in 1..Len(s) : s[i] = "ESC"}
  IN  IF E = {} THEN <<>>
      ELSE LET b == Max(E)
               M == {j \in b..Len(s) : s[j] = "m"}
           IN  IF M = {} THEN SubSeq(s, b, Len(s)) ELSE SubSeq(s, b, Min(M))

\* The terminal's side of the wire format: an escape sequence ESC [ p1;...;pn m
\* applies its parameters in order, parameter 0 clears every parameter
\* applied before it, anything else stays in effect until the next 0.
RECURSIVE SplitSemi(_)
SplitSemi(s) ==
  LET I == {i \in 1..Len(s) : s[i] = ";"}
  IN  IF I = {} THEN <<s>>
      ELSE <<SubSeq(s, 1, Min(I) - 1)>> \o SplitSemi(SubSeq(s, Min(I) + 1, Len(s)))

RECURSIVE ApplyParams(_, _)
ApplyParams(A, ps) ==
  IF ps = <<>> THEN A
  ELSE ApplyParams(IF Head(ps) = <<"0">> THEN {} ELSE A \cup {Head(ps)}, Tail(ps))

IsEscape(str) == Len(str) >= 3 /\ str[1] = "ESC"

\* the parameters in effect on the terminal after the insertions out
RECURSIVE Applied(_)
Applied(out) ==
  IF out = <<>> THEN {}
  ELSE LET before == Applied(SubSeq(out, 1, Len(out) - 1))
           last   == out[Len(out)].str
       IN  IF IsEscape(last)
             THEN ApplyParams(before, SplitSemi(SubSeq(last, 3, Len(last) - 1)))
             ELSE before

ParamSet(payload) == ApplyParams({}, SplitSemi(payload))

RECURSIVE WireAll(_)
WireAll(items) ==
  IF items = <<>> THEN <<>> ELSE Wire(Head(items).str) \o WireAll(Tail(items))

\* Reading a payload back: a decimal numeral (no sign, no leading zero) and
\* the integer it denotes.
IsDecimal(s) ==
  /\ Len(s) >= 1
  /\ \A i \in 1..Len(s) : \E d \in 1..10 : DigitChars[d] = s[i]
  /\ (Len(s) = 1 \/ s[1] # "0")

DigitVal(ch) == (CHOOSE d \in 1..10 : DigitChars[d] = ch) - 1

RECURSIVE ParseDecimal(_)
ParseDecimal(s) ==
  IF Len(s) = 1 THEN DigitVal(s[1])
  ELSE 10 * ParseDecimal(SubSeq(s, 1, Len(s) - 1)) + DigitVal(s[Len(s)])

InRange(rgb) == \A i \in 1..3 : rgb[i] >= 0 /\ rgb[i] <= 255

\* the step just taken wrote through wrapper o and the write failed: nothing
\* reached the buffer and the wrapper's std::ostream is not good
FailedThrough(o) ==
  /\ Len(hist') = Len(hist) + 1
  /\ LET ev == hist'[Len(hist')]
     IN  /\ ev.obj = o
         /\ \/ ev.op \in {"writeSgr", "writeText"}
            \/ ev.op \in {"kill", "destroy"} /\ ev.flag
  /\ ~objs'[o].w.good
  /\ sink' = sink

\* hist positions of the finalizations whose reset write failed
FailedKills ==
  {i \in 1..Len(hist) :
     hist[i].op \in {"kill", "destroy"} /\ hist[i].flag /\ hist[i].wrote = 0}

\* what a run of named sgr and text items puts on the sink
RECURSIVE RenderItems(_)
RenderItems(items) ==
  IF items = <<>> THEN <<>>
  ELSE (IF Head(items).kind = "sgr" THEN Wire(Head(items).str) ELSE Head(items).str)
       \o RenderItems(Tail(items))

\* the operations a chain is made of: the session is created by writing a
\* token, written to, and ended; text goes to the sink between chains
ChainOps == {"insert", "writeSgr", "writeText", "writeColor", "destroy", "direct"}
ChainsOnly == \A i \in 1..Len(hist) : hist[i].op \in ChainOps
NoneAlive == \A o \in 1..Len(objs) : ~objs[o].alive

\* hist position i lies between chains: every session opened before it has
\* ended (a chain's session is one wrapper, created by insert, ended by
\* destroy)
BetweenChains(i) ==
  Cardinality({j \in 1..(i - 1) : hist[j].op = "insert"})
    = Cardinality({j \in 1..(i - 1) : hist[j].op = "destroy"})

\* the sink position of the text written directly at hist position i
DirectAt(i) ==
  LET n == Cardinality({j \in 1..i : hist[j].op = "direct"})
  IN  CHOOSE k \in 1..Len(sink) :
        /\ sink[k].from = "direct"
        /\ Cardinality({l \in 1..k : sink[l].from = "direct"}) = n

\* ------------------------------------------------------------------ claims

\* C1: for a named non-reset sgr t and text s, the statement
\* stream << t << s; on an empty sink leaves exactly ESC[ payload(t) m, s,
\* ESC[0m: the reset occurs once and is the last thing written.
C1_SingleAutoReset ==
  (/\ ChainDone /\ Len(prog) = 2
   /\ IsNamed(prog[1]) /\ IsNonResetSgr(prog[1]) /\ IsText(prog[2]))
  => /\ SinkStr(sink) = Wire(prog[1].str) \o prog[2].str \o ResetStr
     /\ Occ(ResetStr, SinkStr(sink)) = 1
     /\ sink[Len(sink)].str = ResetStr
     /\ (prog[1].str = <<"1">> /\ prog[2].str = BoldString
         => SinkStr(sink) =
              <<"ESC", "[", "1", "m", "B", "o", "l", "d", " ", "s", "t", "r",
                "i", "n", "g", "ESC", "[", "0", "m">>)

C1_Witness ==
  /\ ChainDone
  /\ prog = <<NamedItem(bold), TextItem(BoldString)>>
  /\ Len(sink) = 3 /\ sink[3].from = "kill"

\* C2 (as claimed): after stream << a << s << reset; with a non-reset, the
\* sink holds exactly one ESC[0m: inserting reset left the wrapper Idle and
\* the destructor wrote nothing.
C2_ExplicitResetOnce ==
  (/\ Len(prog) = 3 /\ IsNonResetSgr(prog[1]) /\ IsText(prog[2])
   /\ prog[3] = NamedItem(reset))
  => /\ (pc = 3 => ~objs[1].w.shouldReset)
     /\ (ChainDone => /\ Occ(ResetStr, SinkStr(sink)) = 1
                      /\ hist[Len(hist)].wrote = 0)

\* C3: stream << a << s1 << reset << b << s2; with a, b non-reset leaves
\* render(a), s1, ESC[0m, render(b), s2, ESC[0m: the explicit reset in
\* place, and exactly one automatic reset at the end.
C3_ExplicitThenAutoReset ==
  (/\ ChainDone /\ Len(prog) = 5
   /\ IsNamed(prog[1]) /\ IsNonResetSgr(prog[1]) /\ IsText(prog[2])
   /\ prog[3] = NamedItem(reset)
   /\ IsNamed(prog[4]) /\ IsNonResetSgr(prog[4]) /\ IsText(prog[5]))
  => /\ SinkStr(sink) = Wire(prog[1].str) \o prog[2].str \o ResetStr
                        \o Wire(prog[4].str) \o prog[5].str \o ResetStr
     /\ Len(sink) = 6
     /\ sink[3] = Written("insert", ResetStr)
     /\ sink[6] = Written("kill", ResetStr)
     /\ Kills(sink) = 1
     /\ (/\ prog[1].str = <<"1">> /\ prog[2].str = BoldString
         /\ prog[4].str = <<"3", "2">> /\ prog[5].str = GreenString
         => SinkStr(sink) =
              <<"ESC", "[", "1", "m", "B", "o", "l", "d", " ", "s", "t", "r",
                "i", "n", "g", "ESC", "[", "0", "m", "ESC", "[", "3", "2", "m",
                "G", "r", "e", "e", "n", " ", "s", "t", "r", "i", "n", "g",
                "ESC", "[", "0", "m">>)

C3_Witness ==
  /\ ChainDone
  /\ prog = <<NamedItem(bold), TextItem(BoldString), NamedItem(reset),
              NamedItem(green_fg), TextItem(GreenString)>>
  /\ Kills(sink) = 1

\* C4: for c combined from n >= 2 sgrs t1..tn and text s, stream << c << s;
\* writes one style sequence ESC[ p1;...;pn m with the payloads in
\* combination order, then s, then one ESC[0m.
C4_CombinedChain ==
  (/\ ChainDone /\ Len(prog) = 2
   /\ prog[1].kind = "sgr" /\ Len(prog[1].parts) >= 2 /\ IsText(prog[2]))
  => /\ SinkStr(sink) =
          <<"ESC", "[">> \o JoinSemi(prog[1].parts) \o <<"m">>
          \o prog[2].str \o ResetStr
     /\ Escapes(SinkStr(sink)) = 2
     /\ Kills(sink) = 1
     /\ (prog[1].parts = << <<"1">>, <<"3", "1">>, <<"4", "7">> >>
         => SubSeq(SinkStr(sink), 1, 10) =
              <<"ESC", "[", "1", ";", "3", "1", ";", "4", "7", "m">>)

C4_Witness ==
  /\ ChainDone
  /\ prog = <<CombinedItem(<<bold, red_fg, white_bg>>), TextItem(BoldString)>>
  /\ SubSeq(SinkStr(sink), 1, 10) =
       <<"ESC", "[", "1", ";", "3", "1", ";", "4", "7", "m">>

\* C5 (as claimed): the session opened by stream << t starts Armed when t
\* is non-reset and Idle when t is reset; stream << reset; writes ESC[0m
\* exactly once.
C5_InitialObligation ==
  /\ (pc >= 1 => hist[1].got = (prog[1].str # <<"0">>))
  /\ (ChainDone /\ prog = <<NamedItem(reset)>>
      => Occ(ResetStr, SinkStr(sink)) = 1)

\* C6: in any use of one session, kill() writes at most one automatic reset
\* for it; once it is written every wrapper of the session has its flag
\* cleared, and further insertions and finalizations write no further one.
C6_AtMostOneAutoReset ==
  \A s \in 1..nextSess :
    /\ AutoCnt(s) <= 1
    /\ (AutoCnt(s) = 1
        => \A o \in 1..Len(objs) : objs[o].sess = s => ~objs[o].w.shouldReset)

C6_Witness ==
  \E i, j, k \in 1..Len(hist) :
    /\ i < j /\ j < k
    /\ hist[i].op \in {"kill", "destroy"} /\ hist[i].wrote = 1
    /\ hist[j].op = "writeSgr" /\ hist[j].nonreset
    /\ objs[hist[j].obj].sess = hist[i].sess
    /\ hist[k].op \in {"kill", "destroy"} /\ hist[k].obj = hist[j].obj
    /\ hist[k].wrote = 0

\* C7: for a wrapper that is Armed when first finalized, whatever number of
\* sgrs was inserted through it, its finalizations write the reset exactly
\* once: the first writes it and clears the flag, the later ones write
\* nothing.
C7_FinalizeIdempotent ==
  \A o \in 1..Len(objs) :
    Finalizes(o) # {} =>
      LET f == Min(Finalizes(o)) IN
        hist[f].flag =>
          /\ hist[f].wrote = 1
          /\ ~hist[f].got
          /\ \A i \in Finalizes(o) \ {f} : hist[i].wrote = 0
          /\ SumWrote(Finalizes(o)) = 1

C7_Witness ==
  \E o \in 1..Len(objs) :
    /\ Cardinality(Finalizes(o)) >= 2
    /\ hist[Min(Finalizes(o))].flag
    /\ \E j \in 1..Len(hist) :
         hist[j].op = "writeSgr" /\ hist[j].obj = o /\ hist[j].nonreset
    /\ SumWrote(Finalizes(o)) = 1

\* C8: a move construction gives the destination the obligation exactly
\* when the source held it, and the source loses it: finalizing the source
\* afterwards writes nothing, and finalizing source and destination, in
\* either order, writes the reset once if the source was Armed and never if
\* it was Idle.
C8_HandOff ==
  \A m \in 1..Len(hist) :
    hist[m].op = "move" =>
      LET FS == {i \in Finalizes(hist[m].src) : i > m}
          FD == Finalizes(hist[m].obj)
          passedOn == \E j \in 1..Len(hist) :
                        /\ hist[j].op = "move" /\ hist[j].src = hist[m].obj
                        /\ \A i \in FD : j < i
      IN  /\ hist[m].got = hist[m].flag
          /\ ~hist[m].left
          /\ \A i \in FS : hist[i].wrote = 0
          /\ (FS # {} /\ FD # {} /\ ~passedOn
              => SumWrote(FS \cup FD) = IF hist[m].flag THEN 1 ELSE 0)

C8_Witness ==
  \E a, m, i, j \in 1..Len(hist) :
    /\ a < m /\ m < i /\ m < j /\ i # j
    /\ hist[a].op = "move" /\ hist[a].flag /\ hist[a].got /\ ~hist[a].left
    /\ hist[m].op = "move" /\ hist[m].src = hist[a].src
    /\ ~hist[m].flag /\ ~hist[m].got
    /\ hist[i].op = "destroy" /\ hist[i].obj = hist[m].src
    /\ hist[j].op = "destroy" /\ hist[j].obj = hist[m].obj
    /\ hist[i].wrote = 0 /\ hist[j].wrote = 0
    /\ Live(hist[a].obj) /\ objs[hist[a].obj].w.shouldReset
    /\ Kills(sink) = 0

\* C9: from the creation of a session until its automatic reset is written,
\* exactly one live wrapper holds the obligation; it is never held by two
\* wrappers, and never by a destroyed one.
C9_SingleHolder ==
  /\ \A s \in 1..nextSess :
       LET H == {o \in 1..Len(objs) :
                   objs[o].alive /\ objs[o].sess = s /\ objs[o].w.shouldReset}
       IN  /\ Cardinality(H) <= 1
           /\ (AutoCnt(s) = 0 => Cardinality(H) = 1)
  /\ \A o \in 1..Len(objs) : ~objs[o].alive => ~objs[o].w.shouldReset

C9_Witness ==
  \E m \in 1..Len(hist) :
    /\ hist[m].op = "move"
    /\ AutoCnt(hist[m].sess) = 0
    /\ Live(hist[m].src) /\ Live(hist[m].obj)
    /\ objs[hist[m].obj].w.shouldReset /\ ~objs[hist[m].src].w.shouldReset

\* C10 (as claimed): in any chain of insertions (text and tokens of any
\* kind, with any hand-offs), no insertion and no hand-off makes kill()
\* write a reset: the automatic reset is written only when a wrapper is
\* finalized, so never before the last insertion of the chain.
C10_NoResetMidChain ==
  \A i \in 1..Len(hist) :
    hist[i].op \in {"insert", "writeSgr", "writeText", "writeColor", "move"}
      => hist[i].wrote = 0

\* C11: no style bleed.  After any sequence of complete chains on the sink
\* (each creates a session by writing a token, writes text and tokens, and
\* ends), whenever no session is live the last escape sequence on the sink
\* is ESC[0m, and so is the last one before any text written directly to
\* the sink between chains, that is, while no session was live.
C11_NoStyleBleed ==
  ChainsOnly =>
    /\ (NoneAlive /\ nextSess >= 1 => LastEscape(SinkStr(sink)) = ResetStr)
    /\ \A i \in 1..Len(hist) :
         (hist[i].op = "direct" /\ BetweenChains(i)) =>
           LastEscape(SinkStr(SubSeq(sink, 1, DirectAt(i) - 1)))
             \in {<<>>, ResetStr}

C11_Witness ==
  /\ ChainsOnly /\ NoneAlive /\ nextSess >= 2
  /\ \A i \in 1..Len(hist) : hist[i].op # "writeColor"
  /\ \E i \in 2..Len(hist) :
       /\ hist[i].op = "direct" /\ BetweenChains(i)
       /\ DirectAt(i) >= 2
       /\ sink[DirectAt(i)].from = "direct"
       /\ LastEscape(SinkStr(SubSeq(sink, 1, DirectAt(i) - 1))) = ResetStr
       /\ \E j \in 1..(DirectAt(i) - 1) : sink[j].str = toString(bold)
  /\ LastEscape(SinkStr(sink)) = ResetStr

\* C12 (as claimed): a non-reset token B inserted into a session Armed by
\* a token A overrides A: text written afterwards is rendered with B's
\* parameters only, and the session stays Armed.
C12_NewTokenOverrides ==
  LET Tok == {i \in 1..Len(sink) : sink[i].from = "insert" /\ IsEscape(sink[i].str)}
      NonReset(i) == sink[i].str # ResetStr
  IN  \A t \in 1..Len(sink) :
        LET B == {i \in Tok : i < t}
            A == {i \in Tok : i < Max(B)}
        IN  (/\ sink[t].from = "insert" /\ ~IsEscape(sink[t].str)
             /\ B # {} /\ NonReset(Max(B))
             /\ A # {} /\ NonReset(Max(A)))
              => /\ Applied(SubSeq(sink, 1, t))
                      = ParamSet(SubSeq(sink[Max(B)].str, 3, Len(sink[Max(B)].str) - 1))
                 /\ objs[1].w.shouldReset \/ ChainDone

\* C13: tokens inserted one after another in one chain all apply to the
\* text that follows.  For  sink << a1 << ... << an << text  (n >= 2, named
\* non-reset tokens) the sink holds render(a1) ... render(an), text and one
\* ESC[0m, no reset lies between the renderings, and the text is written
\* with the parameters of every ai in effect.
C13_TokensAccumulate ==
  LET n == Len(prog) - 1
  IN  (/\ ChainDone /\ n >= 2 /\ IsText(prog[n + 1])
       /\ \A i \in 1..n : IsNamed(prog[i]) /\ IsNonResetSgr(prog[i]))
        => /\ SinkStr(sink)
                = WireAll(SubSeq(prog, 1, n)) \o prog[n + 1].str \o ResetStr
           /\ Occ(ResetStr, SinkStr(SubSeq(sink, 1, n))) = 0
           /\ Kills(sink) = 1
           /\ Applied(SubSeq(sink, 1, n + 1))
                = UNION {ParamSet(prog[i].str) : i \in 1..n}

C13_Witness ==
  /\ ChainDone
  /\ prog = <<NamedItem(bold), NamedItem(green_fg), TextItem(BoldString)>>
  /\ Applied(SubSeq(sink, 1, 3)) = {<<"1">>, <<"3", "2">>}
  /\ Kills(sink) = 1

\* C14: for all tokens a and b, a + b is a new token whose payload is a's
\* payload, ";", b's payload, and whose rendering is the one escape
\* sequence ESC [ a.payload ; b.payload m; a and b are left unchanged.
C14_CombinePayload ==
  /\ [](tin.op = "plus" /\ tout.stage # "none" =>
          LET a == tin.ts[1]
              b == tin.ts[2]
          IN  /\ tout.toks[1].str = a.str \o <<";">> \o b.str
              /\ tout.stage # "built" =>
                   /\ tout.text[1] = <<"ESC", "[">> \o a.str \o <<";">> \o b.str \o <<"m">>
                   /\ Escapes(tout.text[1]) = 1)
  /\ [][tin.op = "plus" => tin' = tin]_vars

C14_Witness ==
  /\ tin.op = "plus" /\ tin.ts[1] = bold /\ tin.ts[2] = underline
  /\ tout.stage = "rendered"
  /\ tout.text[1] = <<"ESC", "[", "1", ";", "4", "m">>

\* C15: combination is associative and keeps the order of its operands:
\* (a + b) + c and a + (b + c) render alike, with the payloads of a, b, c
\* from left to right, and the comma operator and the + operator give the
\* same tokens for the same operands.
C15_CombineAssociative ==
  (tin.op \in {"plus", "comma"} /\ tout.stage # "none") =>
    LET a == tin.ts[1]
        b == tin.ts[2]
        c == tin.ts[3]
    IN  /\ toString(tout.toks[2]) = toString(tout.toks[3])
        /\ tout.toks[2].str = JoinSemi(<<a.str, b.str, c.str>>)
        /\ tout.stage # "built" =>
             /\ tout.text[2] = tout.text[3]
             /\ tout.text[2] = Wire(JoinSemi(<<a.str, b.str, c.str>>))
        /\ tout.toks = <<Plus(a, b), Plus(Plus(a, b), c), Plus(a, Plus(b, c))>>
        /\ tout.toks = <<Comma(a, b), Comma(Comma(a, b), c), Comma(a, Comma(b, c))>>

C15_Witness ==
  /\ tin.op = "comma" /\ tout.stage = "rendered"
  /\ tin.ts = <<bold, red_fg, white_bg>>
  /\ tout.text[2] = <<"ESC", "[", "1", ";", "3", "1", ";", "4", "7", "m">>
  /\ tout.text[3] = tout.text[2]

\* C16: for all r, g, b in [0, 255], bounds included, constructing the
\* foreground (background) RGB token succeeds and the token renders as
\* ESC[38;2;r;g;bm (ESC[48;2;r;g;bm), with r, g, b in decimal in that order.
C16_RgbInRange ==
  (tin.op = "rgb" /\ InRange(tin.rgb) /\ tout.stage # "none") =>
    /\ tout.thrown = "" /\ Len(tout.toks) = 1
    /\ LET ps == SplitSemi(tout.toks[1].str)
       IN  /\ Len(ps) = 5
           /\ ps[1] = (IF tin.fgd THEN <<"3", "8">> ELSE <<"4", "8">>)
           /\ ps[2] = <<"2">>
           /\ \A i \in 1..3 :
                IsDecimal(ps[i + 2]) /\ ParseDecimal(ps[i + 2]) = tin.rgb[i]
    /\ tout.stage # "built" => tout.text[1] = Wire(tout.toks[1].str)

C16_Witness ==
  /\ tin.op = "rgb" /\ tin.rgb = <<0, 255, 100>> /\ ~tin.fgd
  /\ tout.stage = "rendered"
  /\ tout.text[1] = <<"ESC", "[", "4", "8", ";", "2", ";", "0", ";",
                      "2", "5", "5", ";", "1", "0", "0", "m">>

\* C17: for all r, g, b with at least one outside [0, 255] (-1 and 256
\* included), constructing the foreground or background RGB token throws
\* invalid_color_component and yields no token: nothing is clamped, and
\* nothing is ever rendered or written from such components.
C17_RgbOutOfRange ==
  (tin.op = "rgb" /\ ~InRange(tin.rgb) /\ tout.stage # "none") =>
    /\ tout.thrown = "invalid_color_component"
    /\ tout.toks = <<>>
    /\ tout.stage = "built" /\ tout.text = <<>>
    /\ sink = <<>>

C17_Witness ==
  /\ tin.op = "rgb" /\ tin.rgb = <<-1, 255, 256>>
  /\ tout.stage = "built"
  /\ tout.thrown = "invalid_color_component" /\ tout.toks = <<>>

\* C18: for each of the 16 indexed colors construction succeeds, the
\* foreground token's payload is the color's code, 30..37 for black, red,
\* green, yellow, blue, magenta, cyan, white and 90..97 for their bright
\* variants, and the background token's payload is that code plus 10
\* (40..47 and 100..107).
C18_IndexedColors ==
  /\ <<BLACK, RED, GREEN, YELLOW, BLUE, MAGENTA, CYAN, WHITE>>
       = [i \in 1..8 |-> 29 + i]
  /\ <<BRIGHT_BLACK, BRIGHT_RED, BRIGHT_GREEN, BRIGHT_YELLOW, BRIGHT_BLUE,
       BRIGHT_MAGENTA, BRIGHT_CYAN, BRIGHT_WHITE>> = [i \in 1..8 |-> 89 + i]
  /\ (tin.op = "ansi" /\ tout.stage # "none") =>
       /\ tout.thrown = "" /\ Len(tout.toks) = 1
       /\ IsDecimal(tout.toks[1].str)
       /\ LET code == ParseDecimal(tout.toks[1].str)
          IN  /\ tin.fgd => code = tin.n /\ code \in (30..37) \cup (90..97)
              /\ ~tin.fgd => code = tin.n + 10 /\ code \in (40..47) \cup (100..107)
              /\ code = ParseDecimal(fg(tin.n).str) + (IF tin.fgd THEN 0 ELSE 10)

C18_Witness ==
  /\ tin.op = "ansi" /\ tin.n = BRIGHT_WHITE /\ ~tin.fgd
  /\ tout.stage = "built" /\ tout.thrown = ""
  /\ tout.toks = <<[str |-> <<"1", "0", "7">>]>>

\* C19: toString() of any token returns exactly ESC, "[", the payload, "m"
\* (bold gives ESC[1m, reset gives ESC[0m), and it is pure: rendering
\* changes neither the token, nor the sink, nor any wrapper, and writing the
\* rendering to the stream as plain text creates no wrapper, hence no reset
\* obligation and no reset.
C19_RenderPure ==
  /\ [](tout.stage \in {"rendered", "printed"} =>
          /\ Len(tout.text) = Len(tout.toks)
          /\ \A i \in 1..Len(tout.toks) :
               tout.text[i] = <<"ESC", "[">> \o tout.toks[i].str \o <<"m">>
          /\ tout.stage = "printed" =>
               /\ sink = <<Written("direct", tout.text[1])>>
               /\ objs = <<>> /\ nextSess = 0 /\ Kills(sink) = 0)
  /\ [][tout.stage = "built" /\ tout'.stage = "rendered" =>
          /\ tout'.toks = tout.toks /\ tin' = tin
          /\ sink' = sink /\ objs' = objs /\ nextSess' = nextSess]_vars
  /\ [][tout.stage = "rendered" /\ tout'.stage = "printed" =>
          /\ tout'.toks = tout.toks /\ tout'.text = tout.text
          /\ objs' = objs /\ nextSess' = nextSess]_vars

C19_Witness ==
  /\ tin.op = "code" /\ tin.n \in {BOLD, RESET}
  /\ tout.stage = "printed"
  /\ tout.text[1] \in {<<"ESC", "[", "1", "m">>, <<"ESC", "[", "0", "m">>}
  /\ SinkStr(sink) = tout.text[1] /\ objs = <<>>

\* C20: round trip.  For each of the 13 named codes c (0..9, 51, 52, 53),
\* taking ESC[ and m off the rendering of the token built from c and
\* reading the payload as a decimal integer gives back c.
C20_CodeRoundTrip ==
  /\ SGRCode = (0..9) \cup {51, 52, 53}
  /\ (tin.op = "code" /\ tout.stage \in {"rendered", "printed"}) =>
       LET t == tout.text[1]
           payload == SubSeq(t, 3, Len(t) - 1)
       IN  /\ Len(t) >= 4
           /\ SubSeq(t, 1, 2) = <<"ESC", "[">> /\ t[Len(t)] = "m"
           /\ IsDecimal(payload)
           /\ ParseDecimal(payload) = tin.n

C20_Witness ==
  /\ tin.op = "code" /\ tin.n = OVERLINE
  /\ tout.stage = "rendered"
  /\ tout.text[1] = <<"ESC", "[", "5", "3", "m">>
  /\ ParseDecimal(SubSeq(tout.text[1], 3, 4)) = 53

\* C21 (as claimed): a write that fails (token, text or the finalizing
\* reset) leaves the obligation flag as it was before the write; a wrapper
\* that was Armed when its finalizing reset failed is still Armed.
C21_FailedWriteKeepsFlag ==
  [][\A o \in 1..Len(objs) :
       FailedThrough(o) => objs'[o].w.shouldReset = objs[o].w.shouldReset]_vars

\* C22: a failed reset write is not retried.  Once the finalizing reset of
\* a session has failed, the wrapper is without the obligation, and no later
\* finalization of a wrapper of that session, the wrappers it was handed to
\* included, finds the obligation or writes the reset.
C22_NoRetry ==
  \A i \in FailedKills :
    /\ ~hist[i].got
    /\ \A j \in (i + 1)..Len(hist) :
         hist[j].sess = hist[i].sess =>
           ~hist[j].flag /\ ~hist[j].got /\ hist[j].wrote = 0

C22_Witness ==
  \E i \in FailedKills : \E m, j \in 1..Len(hist) :
    /\ i < m /\ m < j
    /\ hist[i].op = "kill"
    /\ hist[m].op = "move" /\ hist[m].src = hist[i].obj
    /\ hist[j].op = "destroy" /\ hist[j].obj = hist[m].obj
    /\ objs[hist[j].obj].w.good
    /\ Kills(sink) = 0
    /\ SinkStr(sink) = toString(bold)

\* C23: writing plain data through a wrapper appends exactly that data to
\* the sink, after everything written before, adds no escape sequence, and
\* leaves every wrapper's obligation as it was (Armed stays Armed, Idle
\* stays Idle).
C23_TextPassThrough ==
  [][(Len(hist') = Len(hist) + 1 /\ hist'[Len(hist')].op = "writeText") =>
       /\ \E t \in Texts :
            /\ sink' = Append(sink, Written("insert", t))
            /\ SinkStr(sink') = SinkStr(sink) \o t
       /\ Escapes(SinkStr(sink')) = Escapes(SinkStr(sink))
       /\ objs' = objs
       /\ hist'[Len(hist')].got = hist'[Len(hist')].flag]_vars

C23_Witness ==
  \E i, j \in 1..Len(hist) :
    /\ hist[i].op = "writeText" /\ hist[i].flag /\ hist[i].got
    /\ hist[j].op = "writeText" /\ ~hist[j].flag /\ ~hist[j].got
    /\ hist[i].obj = hist[j].obj
    /\ Occ(<<"t">>, SinkStr(sink)) = 2

\* C24: every token built by the public constructors (named code, indexed
\* foreground or background color, valid RGB triple) and by combining such
\* tokens has a payload that is not empty, holds only decimal digits and
\* ";", neither starts nor ends with ";", and has no empty segment between
\* two ";".
C24_PayloadSyntax ==
  \A k \in 1..Len(tout.toks) :
    LET p == tout.toks[k].str
        segs == SplitSemi(p)
    IN  /\ Len(p) >= 1
        /\ \A i \in 1..Len(p) :
             p[i] = ";" \/ \E d \in 1..10 : DigitChars[d] = p[i]
        /\ p[1] # ";" /\ p[Len(p)] # ";"
        /\ \A i \in 1..Len(segs) : Len(segs[i]) >= 1

C24_Witness ==
  /\ tin.op = "plus" /\ tout.stage = "built"
  /\ tin.ts = <<fg_rgb(128, 64, 7).toks[1], white_bg, reset>>
  /\ tout.toks[2].str = <<"3", "8", ";", "2", ";", "1", "2", "8", ";", "6", "4",
                          ";", "7", ";", "4", "7", ";", "0">>

\* C25 (as claimed): writing a token into a live wrapper writes that token's
\* escape string and nothing else, whatever the token's static type: after
\* a token of type color no reset is written and no second session is
\* opened on the sink by the write.
C25_ColorLikeSgr ==
  \A i \in 1..Len(hist) :
    hist[i].op \in {"writeSgr", "writeColor"} =>
      /\ hist[i].wrote = 0
      /\ hist[i].sess = objs[hist[i].obj].sess
      /\ nextSess
           = Cardinality({j \in 1..Len(hist) : hist[j].op \in {"insert", "ctor"}})

\* C26 (as claimed): the reset obligation is discharged on every exit
\* path.  If the construction of an RGB token throws invalid_color_component
\* while the chain's wrapper is live, the wrapper is still finalized as the
\* exception leaves the statement: the sink holds what was inserted before,
\* then the reset, written exactly once, and nothing of the invalid token.
C26_ResetOnThrow ==
  (ChainDone /\ tout.thrown = "invalid_color_component" /\ Len(objs) >= 1) =>
    LET n == Len(hist) - 1
    IN  /\ hist[Len(hist)].op = "destroy" /\ hist[Len(hist)].obj = 1
        /\ hist[Len(hist)].flag /\ hist[Len(hist)].wrote = 1
        /\ ~objs[1].alive /\ ~objs[1].w.shouldReset
        /\ Kills(sink) = 1 /\ nextSess = 1
        /\ sink[Len(sink)] = Written("kill", ResetStr)
        /\ \A k \in 1..n : prog[k].kind \in {"sgr", "text"}
        /\ SinkStr(sink) = RenderItems(SubSeq(prog, 1, n)) \o ResetStr
        /\ Occ(<<";", "2", ";">>, SinkStr(sink)) = 0
        /\ tout.toks = <<>>

\* C26 (amended): the obligation is discharged on every exit path that
\* unwinds the stack.  If the construction of an RGB token throws
\* invalid_color_component while the chain's wrapper is live and the program
\* catches the exception, the wrapper is finalized on the way to the handler:
\* the sink holds what was inserted before, then the reset, written exactly
\* once.  If the program has no handler, the program is terminated, and
\* unless the implementation unwinds the stack first the wrapper is never
\* finalized: the sink holds what was inserted before and no reset, and the
\* wrapper still has the obligation.  In every case nothing of the invalid
\* token reaches the sink.
C26_ResetWhenUnwound ==
  (ChainDone /\ tout.thrown = "invalid_color_component" /\ Len(objs) >= 1) =>
    LET unwound == ~objs[1].alive
        n == IF unwound THEN Len(hist) - 1 ELSE Len(hist)
    IN  /\ tout.stage \in {"caught", "terminated"}
        /\ tout.stage = "caught" => unwound
        /\ unwound =>
             /\ hist[Len(hist)].op = "destroy" /\ hist[Len(hist)].obj = 1
             /\ hist[Len(hist)].flag /\ hist[Len(hist)].wrote = 1
             /\ ~objs[1].w.shouldReset
             /\ Kills(sink) = 1
             /\ sink[Len(sink)] = Written("kill", ResetStr)
             /\ SinkStr(sink) = RenderItems(SubSeq(prog, 1, n)) \o ResetStr
        /\ ~unwound =>
             /\ tout.stage = "terminated"
             /\ objs[1].w.shouldReset
             /\ Kills(sink) = 0
             /\ SinkStr(sink) = RenderItems(SubSeq(prog, 1, n))
        /\ nextSess = 1
        /\ \A k \in 1..n : prog[k].kind \in {"sgr", "text"}
        /\ Occ(<<";", "2", ";">>, SinkStr(sink)) = 0
        /\ tout.toks = <<>>

C26_Witness ==
  /\ ChainDone /\ tout.thrown = "invalid_color_component"
  /\ tout.stage = "caught"
  /\ prog = <<NamedItem(bold), TextItem(BoldString), RgbItem, TextItem(BoldString)>>
  /\ tin.rgb = <<256, 0, 0>>
  /\ SinkStr(sink) = <<"ESC", "[", "1", "m">> \o BoldString \o ResetStr

\* C27: a wrapper's obligation flag only ever changes from true to false,
\* and only when the wrapper is finalized (kill(), destructor) or is the
\* source of a move; no write of text, of a non-reset token or of the reset
\* token changes it, so a wrapper that lost the obligation never has it
\* again.
C27_FlagMonotone ==
  [][\A o \in 1..Len(objs) :
       objs'[o].w.shouldReset # objs[o].w.shouldReset =>
         /\ objs[o].w.shouldReset /\ ~objs'[o].w.shouldReset
         /\ Len(hist') = Len(hist) + 1
         /\ LET ev == hist'[Len(hist')]
            IN  \/ ev.op \in {"kill", "destroy"} /\ ev.obj = o
                \/ ev.op = "move" /\ ev.src = o]_vars

C27_Witness ==
  \E i, j, k \in 1..Len(hist) :
    /\ i < j /\ j < k
    /\ hist[i].op = "move" /\ hist[i].flag /\ ~hist[i].left
    /\ hist[j].op = "writeSgr" /\ hist[j].obj = hist[i].src /\ hist[j].nonreset
    /\ ~hist[j].flag /\ ~hist[j].got
    /\ hist[k].op = "writeText" /\ hist[k].obj = hist[i].src /\ ~hist[k].got
    /\ ~objs[hist[i].src].w.shouldReset

\* C28 (as claimed): in the sgr_ostream revision a copy takes the
\* obligation over instead of duplicating it.  Destroying the source and the
\* copy writes the reset once in total, and when a chain
\* sink << a << s1 << b << s2 has ended, the destructors have written the
\* reset once.
C28_CopyTransfers ==
  /\ \A m \in 1..Len(hist) :
       LET src == hist[m].src
           cpy == hist[m].obj
           After == {i \in (m + 1)..Len(hist) : hist[i].obj \in {src, cpy}}
       IN  (/\ hist[m].op = "copy" /\ hist[m].flag
            /\ ~objs[src].alive /\ ~objs[cpy].alive
            /\ \A i \in After : hist[i].op \in {"destroy", "writeText"}
            /\ \A i \in (m + 1)..Len(hist) :
                 hist[i].op = "copy" => hist[i].src \notin {src, cpy})
             => SumWrote(After) = 1
  /\ \A d \in 3..Len(hist) :
       (/\ NoneAlive /\ nextSess = 1
        /\ hist[1].op = "insert"
        /\ \A i \in 2..(d - 1) : hist[i].op \in {"writeText", "writeSgr"}
        /\ \E i \in 2..(d - 1) : hist[i].op = "writeSgr"
        /\ \A i \in d..Len(hist) : hist[i].op = "destroy")
         => SumWrote(d..Len(hist)) = 1

\* C29 (as claimed): in the SGR sentinel revision normal termination writes
\* ESC[0m to cerr, cout and clog, once each and in that order, after all
\* other output of the program.
C29_SentinelResets ==
  pc = 1 =>
    LET n == Len(sink)
    IN  /\ n = (Len(hist) - 1) + 3
        /\ SubSeq(sink, n - 2, n)
             = <<Written("cerr", ResetStr), Written("cout", ResetStr),
                 Written("clog", ResetStr)>>
        /\ \A st \in StdStreams :
             LastEscape(SinkStr(SelectSeq(sink, LAMBDA x : x.from = st))) = ResetStr

====
